---- MODULE Spec2Model ----
(***************************************************************************)
(* The BCG growth-share classification of src/data.py: the module-level    *)
(* pipeline that derives Abs_Change, Small_Base, Quartile and Quadrant     *)
(* from the _bcg_raw table and publishes the result as BCG_DATA.           *)
(*                                                                         *)
(* Number representation.  Pct_Change literals carry two decimals and are  *)
(* held as integer hundredths of a percent (-28.57 is -2857).  A median of *)
(* integers is an integer or a half-integer and is held doubled ("twice"), *)
(* so that x >= median is 2*x >= twice.                                    *)
(***************************************************************************)
EXTENDS Integers, Sequences, FiniteSets, TLC

VARIABLES pc, bcg_raw, median_enrollment, BCG_DATA,
          tab_value, tab_content, document

vars == <<pc, bcg_raw, median_enrollment, BCG_DATA,
          tab_value, tab_content, document>>

(***************************************************************************)
(* Bounds of the generic batches.                                          *)
(***************************************************************************)
MaxLen == 2

E22Vals == {0, 19, 20}
E24Vals == {-1, 0, 1}
PctVals == {-2857, 0, 1667, 1668}
UnitNames == <<"U1", "U2", "U3", "U4">>

(***************************************************************************)
(* The reference table: 48 majors, data.py lines 106-170.                  *)
(***************************************************************************)
RefMajor ==
  << "Accounting", "Adventure Education", "Anthropology",
     "Art K-12 Education", "Biochemistry",
     "Biology/Cellular & Molecular Biology", "Borders & Languages",
     "Business Administration", "Chemistry",
     "Communication Design", "Computer Engineering",
     "Computer Information Systems", "Criminology & Justice Studies",
     "Early Childhood Education", "Economics",
     "Educational Studies", "Elementary Education",
     "Engineering", "English", "English Secondary Education",
     "Entrepreneurship & Small Business", "Environmental Conservation and Management",
     "Environmental Science", "Environmental Studies",
     "Exercise & Health Promotion", "Exercise Physiology",
     "Exercise Science K-12 Education", "Gender & Sexuality Studies",
     "Geology", "Health Sciences", "History",
     "Journalism & Multimedia Studies", "Marketing",
     "Mathematics", "Music",
     "Native American & Indigenous Studies", "Nutrition",
     "Philosophy", "Physics",
     "Political Science", "Pre-Major Accounting",
     "Psychology", "Public Health",
     "Sociology and Human Services", "Sport Administration",
     "Studio Art", "Theatre", "Writing" >>

RefEnrollment_2022 ==
  << 63, 69, 24, 15, 49, 193, 6,
     295, 27, 71, 65, 68, 101,
     7, 38, 7, 18,
     196, 21, 19,
     49, 82, 100, 54,
     35, 137, 5, 7,
     51, 51, 37,
     45, 51, 16, 12,
     26, 20, 9, 14,
     36, 149, 272, 86,
     65, 46, 44, 27, 21 >>

RefEnrollment_2024 ==
  << 60, 77, 53, 7, 66, 111, 3,
     325, 27, 48, 73, 77, 103,
     10, 9, 4, 21,
     204, 26, 10,
     40, 133, 86, 56,
     27, 160, 6, 4,
     59, 86, 37,
     34, 68, 21, 27,
     19, 23, 9, 10,
     31, 102, 224, 37,
     65, 40, 57, 15, 20 >>

RefPct_Change_Typo ==
  << -476, 1159, 12083, -5333, 3469, -4249, -5000,
     1017, 0, -3239, 1231, 1324, 198,
     4286, -7632, -4286, 1667,
     408, 2381, -4737,
     -1837, 6220, -1400, 370,
     -2286, 1697, 2000, -4286,
     1569, 6863, 0,
     -2444, 3333, 3125, 12500,
     -2692, 1500, 0, -2857,
     -1389, -3154, -1765, -5698,
     0, -1304, 2955, -4444, -476 >>

RefPct_Change ==
  << -476, 1159, 12083, -5333, 3469, -4249, -5000,
     1017, 0, -3239, 1231, 1324, 198,
     4286, -7632, -4286, 1667,
     408, 2381, -4737,
     -1837, 6220, -1400, 370,
     -2286, 1679, 2000, -4286,
     1569, 6863, 0,
     -2444, 3333, 3125, 12500,
     -2692, 1500, 0, -2857,
     -1389, -3154, -1765, -5698,
     0, -1304, 2955, -4444, -476 >>

(***************************************************************************)
(* BCG_DEPT_DATA, data.py lines 209-248.  SCH_Pct and Two_Year_Change carry *)
(* one decimal and are held in tenths of a percent.                        *)
(***************************************************************************)
DeptDepartment ==
  << "English", "Mathematics", "Health & Human Performance",
     "Biology", "Sociology", "Performing Arts", "Teacher Education",
     "Physics & Engineering", "Chemistry",
     "Business Administration", "Psychology",
     "Accounting", "History",
     "Geosciences", "Art & Design", "Economics", "Political Science",
     "Anthropology", "Environment & Sustainability", "Marketing",
     "Adventure Education", "Philosophy" >>

DeptSCH_Pct ==
  << 100, 85, 75, 70, 60, 55, 58,
     50, 45,
     58, 60,
     18, 38,
     42, 25, 25, 15,
     25, 30, 18,
     20, 22 >>

DeptTwo_Year_Change ==
  << -60, -110, -30, -145, -55, -30, -20,
     -10, -40,
     40, 30,
     120, 30,
     -155, -180, -240, -260,
     -75, -80, -80,
     -100, -110 >>

DeptQuadrant ==
  << "Cash Cow", "Cash Cow", "Cash Cow",
     "Cash Cow", "Cash Cow", "Cash Cow", "Cash Cow",
     "Cash Cow", "Cash Cow",
     "Star", "Star",
     "Question Mark", "Question Mark",
     "Concern", "Concern", "Concern", "Concern",
     "Concern", "Concern", "Concern",
     "Concern", "Concern" >>

BCG_DEPT_DATA ==
  [ Department |-> DeptDepartment, SCH_Pct |-> DeptSCH_Pct,
    Two_Year_Change |-> DeptTwo_Year_Change, Quadrant |-> DeptQuadrant ]

(***************************************************************************)
(* GRAY_ASSOCIATES_DATA, data.py lines 485-540 (the score columns, the     *)
(* program names and the recommendations).                                 *)
(***************************************************************************)
GrayProgram ==
  << "Business Administration", "Psychology", "Engineering",
     "Exercise Physiology", "Environmental Conservation & Mgmt",
     "Criminology & Justice Studies", "Environmental Science",
     "Health Sciences", "Adventure Education", "Computer Information Systems",
     "Biology", "English", "Mathematics", "Sociology",
     "Art & Design", "Chemistry", "Teacher Education",
     "Economics", "Political Science", "Accounting",
     "History", "Philosophy", "Anthropology" >>

GrayStudent_Demand_Score ==
  << 90, 85, 88, 75, 70, 72, 68, 78, 65, 82,
     65, 45, 40, 55, 35, 42, 60, 38, 30, 70,
     35, 20, 28 >>

GrayEmployment_Score ==
  << 85, 70, 92, 80, 65, 68, 72, 85, 55, 90,
     60, 40, 55, 50, 30, 55, 65, 45, 35, 75,
     30, 25, 30 >>

GrayCompetition_Score ==
  << 40, 45, 55, 60, 75, 55, 70, 65, 85, 50,
     45, 40, 50, 50, 60, 55, 45, 50, 55, 55,
     60, 70, 65 >>

GrayMarket_Score ==
  << 74, 68, 79, 72, 68, 65, 68, 76, 65, 75,
     57, 42, 47, 52, 39, 50, 58, 43, 38, 67,
     39, 34, 38 >>

GrayEconomics_Score ==
  << 78, 72, 60, 65, 55, 70, 50, 62, 45, 68,
     55, 80, 82, 70, 40, 48, 55, 60, 58, 72,
     65, 75, 50 >>

GrayGA_Recommendation ==
  << "Grow", "Grow", "Grow", "Grow", "Sustain",
     "Sustain", "Sustain", "Grow", "Sustain", "Grow",
     "Sustain", "Transform", "Transform", "Sustain", "Sunset Review",
     "Sustain", "Sustain", "Evaluate", "Sunset Review", "Grow",
     "Evaluate", "Evaluate", "Evaluate" >>

GRAY_ASSOCIATES_DATA ==
  [ Program |-> GrayProgram,
    Student_Demand_Score |-> GrayStudent_Demand_Score,
    Employment_Score |-> GrayEmployment_Score,
    Competition_Score |-> GrayCompetition_Score,
    Market_Score |-> GrayMarket_Score,
    Economics_Score |-> GrayEconomics_Score,
    GA_Recommendation |-> GrayGA_Recommendation ]

(***************************************************************************)
(* The majors that the narrative names under a quadrant heading, each      *)
(* under the name it has in the Major column ("Biology/CMB" is             *)
(* "Biology/Cellular & Molecular Biology", "Environmental Conservation &   *)
(* Mgmt" is "Environmental Conservation and Management"); "MND: Art &      *)
(* Design" has no row in the table.                                        *)
(***************************************************************************)
Named(q, major) == [quadrant |-> q, major |-> major]

\* BCG_INSIGHTS, data.py lines 270-281.
BCG_INSIGHTS ==
  { Named("Star", "Business Administration"),
    Named("Star", "Exercise Physiology"),
    Named("Star", "Environmental Conservation and Management"),
    Named("Cash Cow", "Psychology"),
    Named("Cash Cow", "Biology/Cellular & Molecular Biology"),
    Named("Cash Cow", "Pre-Major Accounting"),
    Named("Question Mark", "Anthropology"),
    Named("Question Mark", "Music"),
    Named("Concern", "Economics"),
    Named("Concern", "MND: Art & Design"),
    Named("Concern", "Public Health") }

\* The investment recommendations of generate_bcg_docx, lines 515-526.
BcgDocxRecommendations ==
  { Named("Star", "Business Administration"),
    Named("Star", "Exercise Physiology"),
    Named("Star", "Environmental Conservation and Management"),
    Named("Cash Cow", "Psychology"),
    Named("Cash Cow", "Biology/Cellular & Molecular Biology"),
    Named("Question Mark", "Anthropology"),
    Named("Question Mark", "Music") }

(***************************************************************************)
(* Data frames: a record of columns; a column the frame does not have is   *)
(* the empty sequence and is not listed in "columns".                      *)
(***************************************************************************)
NoFrame ==
  [ columns |-> <<>>, Major |-> <<>>, Enrollment_2022 |-> <<>>,
    Enrollment_2024 |-> <<>>, Pct_Change |-> <<>>, Abs_Change |-> <<>>,
    Small_Base |-> <<>>, Quartile |-> <<>>, Quadrant |-> <<>> ]

DataFrame(major, e22, e24, pct) ==
  [ NoFrame EXCEPT
      !.columns = <<"Major", "Enrollment_2022", "Enrollment_2024", "Pct_Change">>,
      !.Major = major, !.Enrollment_2022 = e22,
      !.Enrollment_2024 = e24, !.Pct_Change = pct ]

HasColumn(df, name) == \E k \in 1..Len(df.columns) : df.columns[k] = name

NRows(df) == Len(df.Major)

SetColumn(df, name, col) ==
  [ df EXCEPT ![name] = col,
              !.columns = IF HasColumn(df, name) THEN @ ELSE Append(@, name) ]

NotComputed == [state |-> "unset", twice |-> 0]
NaN == [state |-> "nan", twice |-> 0]
Num2(t) == [state |-> "num", twice |-> t]

(***************************************************************************)
(* Series.median(): the values in ascending order, the middle one for an   *)
(* odd count, the mean of the two middle ones for an even count, NaN for   *)
(* an empty series.                                                        *)
(***************************************************************************)
RECURSIVE Insert(_, _)
Insert(x, s) ==
  IF s = <<>> THEN <<x>>
  ELSE IF x <= Head(s) THEN <<x>> \o s
       ELSE <<Head(s)>> \o Insert(x, Tail(s))

RECURSIVE SortAsc(_)
SortAsc(s) == IF s = <<>> THEN <<>> ELSE Insert(Head(s), SortAsc(Tail(s)))

MedianUpperMiddle(col) ==
  LET n == Len(col)
      s == SortAsc(col)
  IN  IF n = 0 THEN NaN ELSE Num2(2 * s[(n \div 2) + 1])

MedianOfReference(col) ==
  LET n == Len(RefEnrollment_2024)
      s == SortAsc(RefEnrollment_2024)
  IN  IF Len(col) = 0 THEN NaN ELSE Num2(s[n \div 2] + s[(n \div 2) + 1])

Median(col) ==
  LET n == Len(col)
      s == SortAsc(col)
  IN  IF n = 0 THEN NaN
      ELSE IF n % 2 = 1 THEN Num2(2 * s[(n + 1) \div 2])
           ELSE Num2(s[n \div 2] + s[(n \div 2) + 1])

(***************************************************************************)
(* x >= m for an integer x and a median m; a comparison with NaN is False. *)
(***************************************************************************)
\* The comparison made strict: a value equal to the median is not large.
GtMedian(x, m) == m.state = "num" /\ 2 * x > m.twice

GeMedian(x, m) == m.state = "num" /\ 2 * x >= m.twice

(***************************************************************************)
(* Derived columns, data.py lines 173-174.                                 *)
(***************************************************************************)
AbsChangeColumn(df) ==
  [i \in 1..NRows(df) |-> df.Enrollment_2024[i] - df.Enrollment_2022[i]]

SmallBaseColumnInclusive(df) ==
  [i \in 1..NRows(df) |-> df.Enrollment_2022[i] <= 20]

SmallBaseColumn(df) ==
  [i \in 1..NRows(df) |-> df.Enrollment_2022[i] < 20]

(***************************************************************************)
(* _assign_quartile, data.py lines 177-185.                                *)
(***************************************************************************)
\* The Q2 upper cutpoint made exclusive: a percent change of 0 falls in Q3.
assign_quartile_zero_in_q3(pct) ==
  IF pct <= -2857 THEN 1
  ELSE IF pct < 0 THEN 2
  ELSE IF pct <= 1667 THEN 3
  ELSE 4

assign_quartile_strict(pct) ==
  IF pct < -2857 THEN 1
  ELSE IF pct < 0 THEN 2
  ELSE IF pct < 1667 THEN 3
  ELSE 4

assign_quartile(pct) ==
  IF pct <= -2857 THEN 1
  ELSE IF pct <= 0 THEN 2
  ELSE IF pct <= 1667 THEN 3
  ELSE 4

\* Quartiles relative to the batch: by the rank of the unit's percent change
\* among the batch's.
QuartileColumnByRank(df) ==
  [i \in 1..NRows(df) |->
     1 + ((4 * Cardinality({j \in 1..NRows(df) : df.Pct_Change[j] < df.Pct_Change[i]}))
            \div NRows(df))]

QuartileColumn(df) ==
  [i \in 1..NRows(df) |-> assign_quartile(df.Pct_Change[i])]

(***************************************************************************)
(* _assign_quadrant, data.py lines 192-202; the module-level               *)
(* _median_enrollment it reads is passed as m.                             *)
(***************************************************************************)
Row(df, i) ==
  [ Major |-> df.Major[i], Enrollment_2022 |-> df.Enrollment_2022[i],
    Enrollment_2024 |-> df.Enrollment_2024[i], Pct_Change |-> df.Pct_Change[i] ]

assign_quadrant_strict_size(row, m) ==
  LET large == GeMedian(row.Enrollment_2024, m) /\ 2 * row.Enrollment_2024 # m.twice
      growing == row.Pct_Change > 0
  IN  IF large /\ growing THEN "Star"
      ELSE IF large /\ ~growing THEN "Cash Cow"
      ELSE IF ~large /\ growing THEN "Question Mark"
      ELSE "Concern"

assign_quadrant_zero_grows(row, m) ==
  LET large == GeMedian(row.Enrollment_2024, m)
      growing == row.Pct_Change >= 0
  IN  IF large /\ growing THEN "Star"
      ELSE IF large /\ ~growing THEN "Cash Cow"
      ELSE IF ~large /\ growing THEN "Question Mark"
      ELSE "Concern"

assign_quadrant_merged(row, m) ==
  LET large == GeMedian(row.Enrollment_2024, m)
      growing == row.Pct_Change > 0
  IN  IF large /\ growing THEN "Star"
      ELSE IF large /\ ~growing THEN "Cash Cow"
      ELSE IF ~large /\ growing THEN "Star"
      ELSE "Concern"

assign_quadrant(row, m) ==
  LET large == GeMedian(row.Enrollment_2024, m)
      growing == row.Pct_Change > 0
  IN  IF large /\ growing THEN "Star"
      ELSE IF large /\ ~growing THEN "Cash Cow"
      ELSE IF ~large /\ growing THEN "Question Mark"
      ELSE "Concern"

QuadrantColumn(df, m) ==
  [i \in 1..NRows(df) |-> assign_quadrant(Row(df, i), m)]

(***************************************************************************)
(* DataFrame.copy(), data.py line 206.                                     *)
(***************************************************************************)
DropLast(s) == IF Len(s) = 0 THEN s ELSE SubSeq(s, 1, Len(s) - 1)

CopyTruncated(df) ==
  [ df EXCEPT !.Major = DropLast(@), !.Enrollment_2022 = DropLast(@),
              !.Enrollment_2024 = DropLast(@), !.Pct_Change = DropLast(@),
              !.Abs_Change = DropLast(@), !.Small_Base = DropLast(@),
              !.Quartile = DropLast(@), !.Quadrant = DropLast(@) ]

Copy(df) == df

(***************************************************************************)
(* Helpers of the consumers in app.py and doc_generator.py.                *)
(***************************************************************************)
BcgQuadrantKeys == {"Star", "Cash Cow", "Question Mark", "Concern"}

CountOf(col, v) == Cardinality({i \in 1..Len(col) : col[i] = v})

\* Series.value_counts() read with .get(q, 0).
value_counts(col) == [q \in BcgQuadrantKeys |-> CountOf(col, q)]

\* Series.round(1) of a value in hundredths, in tenths (round half to even).
RoundHalfEven1(p) ==
  LET q == p \div 10
      r == p % 10
  IN  IF r < 5 THEN q
      ELSE IF r > 5 THEN q + 1
      ELSE IF q % 2 = 0 THEN q ELSE q + 1

\* int(m) of a numeric median: truncation toward zero.
IntOfMedian(m) ==
  IF m.twice >= 0 THEN m.twice \div 2 ELSE -((-m.twice) \div 2)

\* The rows of BCG_DEPT_DATA labelled q.
DeptRows(q) ==
  { [ Department |-> BCG_DEPT_DATA.Department[i],
      SCH_Pct |-> BCG_DEPT_DATA.SCH_Pct[i],
      Two_Year_Change |-> BCG_DEPT_DATA.Two_Year_Change[i] ] :
      i \in {k \in 1..Len(BCG_DEPT_DATA.Department) : BCG_DEPT_DATA.Quadrant[k] = q} }

\* The rows of a classified frame labelled q.
MajorsIn(df, q) == { df.Major[i] : i \in {k \in 1..NRows(df) : df.Quadrant[k] = q} }

(***************************************************************************)
(* build_summary_page, app.py lines 274-346: the framework summaries.      *)
(***************************************************************************)
build_summary_page(data) ==
  [ builder |-> "build_summary_page",
    programs_analyzed |-> 23,
    dept_counts |-> value_counts(BCG_DEPT_DATA.Quadrant),
    major_counts |-> value_counts(data.Quadrant),
    small_base |-> CountOf(data.Small_Base, TRUE),
    gray_text |-> ("Grow" :> 7) @@ ("Sustain" :> 7) @@ ("Transform" :> 2)
                    @@ ("Evaluate" :> 4) @@ ("Sunset Review" :> 2) ]

(***************************************************************************)
(* build_gray_tab, app.py lines 628-817: the scorecard rows (shown sorted  *)
(* by Market_Score; the order is not modelled), the Market Score formula   *)
(* of the methodology card and the decision rules table.                   *)
(***************************************************************************)
GrayScorecard ==
  { [ Program |-> GRAY_ASSOCIATES_DATA.Program[i],
      Student_Demand_Score |-> GRAY_ASSOCIATES_DATA.Student_Demand_Score[i],
      Employment_Score |-> GRAY_ASSOCIATES_DATA.Employment_Score[i],
      Competition_Score |-> GRAY_ASSOCIATES_DATA.Competition_Score[i],
      Market_Score |-> GRAY_ASSOCIATES_DATA.Market_Score[i],
      Economics_Score |-> GRAY_ASSOCIATES_DATA.Economics_Score[i],
      GA_Recommendation |-> GRAY_ASSOCIATES_DATA.GA_Recommendation[i] ] :
      i \in 1..Len(GRAY_ASSOCIATES_DATA.Program) }

\* "Market Score = (Student Demand x 0.40) + (Employment x 0.40) +
\* (Competition x 0.20)", weights in hundredths.
MarketScoreWeights == [demand |-> 40, employment |-> 40, competition |-> 20]

\* The rows of the decision rules table: recommendation, Market Score range,
\* Economics Score range.
DecisionRule(rec, market, economics) ==
  IF rec = "Grow" THEN market > 65 /\ economics > 65
  ELSE IF rec = "Sustain" THEN market >= 50 /\ market <= 65
  ELSE IF rec = "Transform" THEN market < 50 /\ economics > 60
  ELSE IF rec = "Evaluate" THEN market < 50 /\ economics < 60
  ELSE IF rec = "Sunset Review" THEN market < 40 /\ economics < 50
  ELSE FALSE

build_gray_tab ==
  [ builder |-> "build_gray_tab",
    scorecard |-> GrayScorecard,
    formula |-> MarketScoreWeights,
    rec_counts |-> [r \in {"Grow", "Sustain", "Transform", "Evaluate", "Sunset Review"} |->
                      CountOf(GRAY_ASSOCIATES_DATA.GA_Recommendation, r)] ]

(***************************************************************************)
(* build_bcg_tab, app.py lines 819-1108.  The result holds the content     *)
(* shown and BCG_DATA as the call leaves it: the function works on         *)
(* df = BCG_DATA.copy() and on detail_df = df[[...]].copy().  The detail   *)
(* table is shown sorted by Enrollment_2024; the order is not modelled.    *)
(***************************************************************************)
DetailRows(df) ==
  { [ Major |-> IF df.Small_Base[i] THEN df.Major[i] \o " *" ELSE df.Major[i],
      Enrollment_2022 |-> df.Enrollment_2022[i],
      Enrollment_2024 |-> df.Enrollment_2024[i],
      Abs_Change |-> df.Abs_Change[i],
      Pct_Change |-> RoundHalfEven1(df.Pct_Change[i]),
      Quartile |-> df.Quartile[i],
      Quadrant |-> df.Quadrant[i] ] : i \in 1..NRows(df) }

BcgTabContent(df) ==
  LET median_enroll == Median(df.Enrollment_2024)
  IN  [ builder |-> "build_bcg_tab",
        dept_traces |-> [q \in BcgQuadrantKeys |-> DeptRows(q)],
        dept_vline |-> 40,
        dept_hline |-> 0,
        traces |-> [q \in BcgQuadrantKeys |-> MajorsIn(df, q)],
        median_enroll |-> median_enroll,
        vline |-> median_enroll,
        hline |-> 0,
        guide_median |-> IntOfMedian(median_enroll),
        summary |-> value_counts(df.Quadrant),
        insights |-> BCG_INSIGHTS,
        detail_df |-> DetailRows(df) ]

\* The same function with detail_df bound to BCG_DATA itself: the two
\* column assignments then land in BCG_DATA.
build_bcg_tab_in_place(data) ==
  [ BCG_DATA |->
      [ data EXCEPT
          !.Pct_Change = [i \in 1..NRows(data) |-> 10 * RoundHalfEven1(data.Pct_Change[i])],
          !.Major = [i \in 1..NRows(data) |->
                       IF data.Small_Base[i] THEN data.Major[i] \o " *"
                       ELSE data.Major[i]] ],
    content |-> BcgTabContent(data) ]

build_bcg_tab(data) ==
  LET df == Copy(data)
  IN  [ BCG_DATA |-> data, content |-> BcgTabContent(df) ]

\* int(median_enroll) of the reading guide raises ValueError on NaN, the
\* median of a table without rows.
BcgTabRaises(data) == NRows(data) = 0

(***************************************************************************)
(* render_tab, app.py lines 1691-1712, over the tab values of the layout   *)
(* (lines 1647-1656) and one value that is none of them.                   *)
(***************************************************************************)
TabValues ==
  {"summary", "pestle", "porters", "gray", "bcg", "swot", "zonetowin", "roadmap"}

TabInputs == TabValues \cup {"other"}

NoContent == [builder |-> "none"]

render_tab(tab, data) ==
  IF tab = "summary" THEN [BCG_DATA |-> data, content |-> build_summary_page(data)]
  ELSE IF tab = "pestle" THEN [BCG_DATA |-> data, content |-> [builder |-> "build_pestle_tab"]]
  ELSE IF tab = "porters" THEN [BCG_DATA |-> data, content |-> [builder |-> "build_porters_tab"]]
  ELSE IF tab = "gray" THEN [BCG_DATA |-> data, content |-> build_gray_tab]
  ELSE IF tab = "bcg" THEN build_bcg_tab(data)
  ELSE IF tab = "swot" THEN [BCG_DATA |-> data, content |-> [builder |-> "build_swot_tab"]]
  ELSE IF tab = "zonetowin" THEN [BCG_DATA |-> data, content |-> [builder |-> "build_zone_to_win_tab"]]
  ELSE IF tab = "roadmap" THEN [BCG_DATA |-> data, content |-> [builder |-> "build_roadmap_tab"]]
  ELSE [BCG_DATA |-> data, content |-> [builder |-> "placeholder", text |-> "Select a tab"]]

(***************************************************************************)
(* The document generators of doc_generator.py that read BCG_DATA.  The    *)
(* variable document holds the outcome of the last call.                   *)
(***************************************************************************)
DocKinds == {"bcg_docx", "bcg_pptx", "exec_summary_docx", "final_report_docx"}

NoDocument == [kind |-> "none"]

\* _bcg_quadrant_counts, lines 738-746.
bcg_quadrant_counts(data) == value_counts(data.Quadrant)

\* _gray_rec_counts, lines 749-751.
gray_rec_counts ==
  [r \in {GRAY_ASSOCIATES_DATA.GA_Recommendation[i] :
            i \in 1..Len(GRAY_ASSOCIATES_DATA.GA_Recommendation)} |->
     CountOf(GRAY_ASSOCIATES_DATA.GA_Recommendation, r)]

\* generate_bcg_docx, lines 428-534.
generate_bcg_docx(data) ==
  LET counts == value_counts(data.Quadrant)
      total == NRows(data)
  IN  [ kind |-> "bcg_docx",
        dept_divider |-> 40,
        dept_sections |-> [q \in BcgQuadrantKeys |-> DeptRows(q)],
        sections |-> [q \in BcgQuadrantKeys |-> MajorsIn(data, q)],
        findings |-> BCG_INSIGHTS,
        total |-> total,
        counts |-> counts,
        percents |-> [q \in BcgQuadrantKeys |-> (counts[q] * 100) \div total],
        recommendations |-> BcgDocxRecommendations,
        small_base_text |-> 12 ]

\* counts * 100 // total divides by the number of rows.
BcgDocxRaises(data) == NRows(data) = 0

\* generate_bcg_pptx, lines 537-598.
generate_bcg_pptx(data) ==
  [ kind |-> "bcg_pptx",
    dept_counts |-> value_counts(BCG_DEPT_DATA.Quadrant),
    sections |-> [q \in BcgQuadrantKeys |-> MajorsIn(data, q)],
    counts |-> value_counts(data.Quadrant),
    small_base_text |-> 12 ]

\* The executive summary with a Concern count in the text that is off by one.
exec_summary_content_stale(data) ==
  [ dept_counts |-> value_counts(BCG_DEPT_DATA.Quadrant),
    bcg_counts |-> bcg_quadrant_counts(data),
    total_bcg |-> NRows(data),
    gray_counts |-> gray_rec_counts,
    star_majors_text |-> 15,
    concern_majors_text |-> 18,
    star_targets |-> {"Business Admin", "Exercise Physiology", "Psychology", "Engineering"} ]

\* _write_exec_summary_content, lines 754-873 (the BCG and Gray paragraphs
\* and the recommendations).
exec_summary_content(data) ==
  [ dept_counts |-> value_counts(BCG_DEPT_DATA.Quadrant),
    bcg_counts |-> bcg_quadrant_counts(data),
    total_bcg |-> NRows(data),
    gray_counts |-> gray_rec_counts,
    star_majors_text |-> 15,
    concern_majors_text |-> 17,
    star_targets |-> {"Business Admin", "Exercise Physiology", "Psychology", "Engineering"} ]

\* generate_exec_summary_docx, lines 876-889.
generate_exec_summary_docx(data) ==
  [ kind |-> "exec_summary_docx", summary |-> exec_summary_content(data) ]

\* generate_final_report_docx, lines 963-1128.
generate_final_report_docx(data) ==
  [ kind |-> "final_report_docx",
    summary |-> exec_summary_content(data),
    dept_sections |-> [q \in BcgQuadrantKeys |-> DeptRows(q)],
    sections |-> [q \in BcgQuadrantKeys |-> MajorsIn(data, q)],
    findings |-> BCG_INSIGHTS,
    gray_counts |-> gray_rec_counts ]

generate_document(kind, data) ==
  IF kind = "bcg_docx" THEN generate_bcg_docx(data)
  ELSE IF kind = "bcg_pptx" THEN generate_bcg_pptx(data)
  ELSE IF kind = "exec_summary_docx" THEN generate_exec_summary_docx(data)
  ELSE generate_final_report_docx(data)

(***************************************************************************)
(* The batches: the reference table, and every table of at most MaxLen     *)
(* rows over the value sets above, rows named by position.                 *)
(***************************************************************************)
ReferenceFrame ==
  DataFrame(RefMajor, RefEnrollment_2022, RefEnrollment_2024, RefPct_Change)

IsGenericFrame(df) ==
  \E n \in 0..MaxLen :
    \E e22 \in [1..n -> E22Vals], e24 \in [1..n -> E24Vals],
       pct \in [1..n -> PctVals] :
      df = DataFrame(SubSeq(UnitNames, 1, n), e22, e24, pct)

Init ==
  /\ \/ bcg_raw = ReferenceFrame
     \/ IsGenericFrame(bcg_raw)
  /\ pc = "abs_change"
  /\ median_enrollment = NotComputed
  /\ BCG_DATA = NoFrame
  /\ tab_value = "summary"
  /\ tab_content = NoContent
  /\ document = NoDocument

(***************************************************************************)
(* The module-level statements of data.py lines 173-206, one per action.   *)
(***************************************************************************)
DeriveAbsChange ==
  /\ pc = "abs_change"
  /\ bcg_raw' = SetColumn(bcg_raw, "Abs_Change", AbsChangeColumn(bcg_raw))
  /\ pc' = "small_base"
  /\ UNCHANGED <<median_enrollment, BCG_DATA, tab_value, tab_content, document>>

DeriveSmallBase ==
  /\ pc = "small_base"
  /\ bcg_raw' = SetColumn(bcg_raw, "Small_Base", SmallBaseColumn(bcg_raw))
  /\ pc' = "quartile"
  /\ UNCHANGED <<median_enrollment, BCG_DATA, tab_value, tab_content, document>>

DeriveQuartile ==
  /\ pc = "quartile"
  /\ bcg_raw' = SetColumn(bcg_raw, "Quartile", QuartileColumn(bcg_raw))
  /\ pc' = "median"
  /\ UNCHANGED <<median_enrollment, BCG_DATA, tab_value, tab_content, document>>

ComputeMedian ==
  /\ pc = "median"
  /\ median_enrollment' = Median(bcg_raw.Enrollment_2024)
  /\ pc' = "quadrant"
  /\ UNCHANGED <<bcg_raw, BCG_DATA, tab_value, tab_content, document>>

DeriveQuadrant ==
  /\ pc = "quadrant"
  /\ NRows(bcg_raw) > 0
  /\ bcg_raw' = SetColumn(bcg_raw, "Quadrant",
                          QuadrantColumn(bcg_raw, median_enrollment))
  /\ pc' = "copy"
  /\ UNCHANGED <<median_enrollment, BCG_DATA, tab_value, tab_content, document>>

(***************************************************************************)
(* On a table without rows DataFrame.apply(axis=1) returns a frame, not a  *)
(* series; assigning it to one column is accepted or rejected with         *)
(* ValueError depending on the pandas release.                             *)
(***************************************************************************)
DeriveQuadrantEmpty ==
  /\ pc = "quadrant"
  /\ NRows(bcg_raw) = 0
  /\ \/ /\ bcg_raw' = SetColumn(bcg_raw, "Quadrant", <<>>)
        /\ pc' = "copy"
     \/ /\ pc' = "error"
        /\ UNCHANGED bcg_raw
  /\ UNCHANGED <<median_enrollment, BCG_DATA, tab_value, tab_content, document>>

PublishBCGData ==
  /\ pc = "copy"
  /\ BCG_DATA' = Copy(bcg_raw)
  /\ pc' = "done"
  /\ UNCHANGED <<bcg_raw, median_enrollment, tab_value, tab_content, document>>

(***************************************************************************)
(* The two programs that import data.py, each in a process of its own:     *)
(* app.py serves the tabs through the render_tab callback, and             *)
(* doc_generator.py run as a script writes the documents.  The on-demand   *)
(* downloads of app.py call the same generators and are modelled by the    *)
(* script's calls.  A process that has rendered a tab is the application;  *)
(* one that has produced a document outcome is the script.                 *)
(***************************************************************************)
RenderTab ==
  /\ pc = "done"
  /\ document = NoDocument
  /\ \E tab \in TabInputs :
       /\ ~(tab = "bcg" /\ BcgTabRaises(BCG_DATA))
       /\ tab_value' = tab
       /\ tab_content' = render_tab(tab, BCG_DATA).content
       /\ BCG_DATA' = render_tab(tab, BCG_DATA).BCG_DATA
  /\ UNCHANGED <<pc, bcg_raw, median_enrollment, document>>

\* build_bcg_tab raises: the callback returns nothing and the content shown
\* stays.
RenderTabRaises ==
  /\ pc = "done"
  /\ document = NoDocument
  /\ BcgTabRaises(BCG_DATA)
  /\ tab_value' = "bcg"
  /\ UNCHANGED <<pc, bcg_raw, median_enrollment, BCG_DATA, tab_content, document>>

GenerateDocument ==
  /\ pc = "done"
  /\ tab_content = NoContent /\ tab_value = "summary"
  /\ \E kind \in DocKinds :
       /\ ~(kind = "bcg_docx" /\ BcgDocxRaises(BCG_DATA))
       /\ document' = generate_document(kind, BCG_DATA)
  /\ UNCHANGED <<pc, bcg_raw, median_enrollment, BCG_DATA, tab_value, tab_content>>

\* generate_bcg_docx raises ZeroDivisionError: the call ends with the
\* exception and writes no document.
GenerateDocumentRaises ==
  /\ pc = "done"
  /\ tab_content = NoContent /\ tab_value = "summary"
  /\ BcgDocxRaises(BCG_DATA)
  /\ document' = [kind |-> "raised", error |-> "ZeroDivisionError"]
  /\ UNCHANGED <<pc, bcg_raw, median_enrollment, BCG_DATA, tab_value, tab_content>>

Next ==
  \/ DeriveAbsChange
  \/ DeriveSmallBase
  \/ DeriveQuartile
  \/ ComputeMedian
  \/ DeriveQuadrant
  \/ DeriveQuadrantEmpty
  \/ PublishBCGData
  \/ RenderTab
  \/ RenderTabRaises
  \/ GenerateDocument
  \/ GenerateDocumentRaises

Spec == Init /\ [][Next]_vars

TypeOK ==
  /\ pc \in {"abs_change", "small_base", "quartile", "median", "quadrant",
             "copy", "done", "error"}
  /\ median_enrollment.state \in {"unset", "nan", "num"}
  /\ tab_value \in TabInputs
  /\ document.kind \in DocKinds \cup {"none", "raised"}

(***************************************************************************)
(* Vocabulary of the properties.                                           *)
(***************************************************************************)
Published == pc = "done"

Units(df) == 1..NRows(df)

LargeQuadrants == {"Star", "Cash Cow"}
GrowingQuadrants == {"Star", "Question Mark"}
Quadrants == {"Star", "Cash Cow", "Question Mark", "Concern"}

\* The k-th smallest value of a column, by rank: fewer than k values lie
\* below it and at least k values are at most it.
OrderStat(col, k) ==
  CHOOSE v \in {col[i] : i \in 1..Len(col)} :
    /\ Cardinality({i \in 1..Len(col) : col[i] < v}) < k
    /\ Cardinality({i \in 1..Len(col) : col[i] <= v}) >= k

\* Twice the standard median of a non-empty column.
StdMedianTwice(col) ==
  LET n == Len(col)
  IN  IF n % 2 = 1 THEN 2 * OrderStat(col, (n + 1) \div 2)
      ELSE OrderStat(col, n \div 2) + OrderStat(col, (n \div 2) + 1)

\* n / d rounded to the nearest integer, for d > 0.
RoundDiv(n, d) == (2 * n + d) \div (2 * d)

\* (current - baseline) / baseline * 100, in hundredths, to two decimals.
PctFormula(baseline, current) == RoundDiv((current - baseline) * 10000, baseline)

\* C1: in the published table a unit is Star or Cash Cow exactly when its
\* Enrollment_2024 is at least the median of the Enrollment_2024 column of
\* its batch; a unit equal to the median counts as large.
C1_MedianBoundary ==
  Published =>
    \A i \in Units(BCG_DATA) :
      (2 * BCG_DATA.Enrollment_2024[i] >= StdMedianTwice(BCG_DATA.Enrollment_2024))
        <=> (BCG_DATA.Quadrant[i] \in LargeQuadrants)

\* A batch of at least two units, one of them exactly on the median and
\* classified large.
C1_Witness ==
  /\ Published
  /\ NRows(BCG_DATA) >= 2
  /\ \E i \in Units(BCG_DATA) :
       /\ 2 * BCG_DATA.Enrollment_2024[i] = StdMedianTwice(BCG_DATA.Enrollment_2024)
       /\ BCG_DATA.Quadrant[i] \in LargeQuadrants

\* C2: Pct_Change > 0 exactly for Star and Question Mark, Pct_Change <= 0
\* exactly for Cash Cow and Concern; zero change is never growing.
C2_GrowthSign ==
  Published =>
    \A i \in Units(BCG_DATA) :
      /\ (BCG_DATA.Pct_Change[i] > 0) <=> (BCG_DATA.Quadrant[i] \in GrowingQuadrants)
      /\ (BCG_DATA.Pct_Change[i] <= 0)
           <=> (BCG_DATA.Quadrant[i] \in {"Cash Cow", "Concern"})

\* A unit with exactly zero change next to a growing one.
C2_Witness ==
  /\ Published
  /\ \E i, j \in Units(BCG_DATA) :
       /\ BCG_DATA.Pct_Change[i] = 0
       /\ BCG_DATA.Quadrant[i] \in {"Cash Cow", "Concern"}
       /\ BCG_DATA.Pct_Change[j] > 0
       /\ BCG_DATA.Quadrant[j] \in GrowingQuadrants

\* C3: quartile 1 up to and including -28.57, quartile 2 up to and including
\* 0, quartile 3 up to and including 16.67, quartile 4 above.
C3_QuartileCutpoints ==
  Published =>
    \A i \in Units(BCG_DATA) :
      LET p == BCG_DATA.Pct_Change[i]
          q == BCG_DATA.Quartile[i]
      IN  /\ (q = 1) <=> (p <= -2857)
          /\ (q = 2) <=> (-2857 < p /\ p <= 0)
          /\ (q = 3) <=> (0 < p /\ p <= 1667)
          /\ (q = 4) <=> (1667 < p)

\* One table with a unit on each of the three cutpoints, each in the lower
\* bucket.
C3_Witness ==
  /\ Published
  /\ \E i, j, k \in Units(BCG_DATA) :
       /\ BCG_DATA.Pct_Change[i] = -2857 /\ BCG_DATA.Quartile[i] = 1
       /\ BCG_DATA.Pct_Change[j] = 0 /\ BCG_DATA.Quartile[j] = 2
       /\ BCG_DATA.Pct_Change[k] = 1667 /\ BCG_DATA.Quartile[k] = 3

\* C4: Small_Base is true exactly when Enrollment_2022 < 20, whatever the
\* unit's other fields and whatever the other units; 20 is not flagged.
C4_SmallBase ==
  HasColumn(bcg_raw, "Small_Base") =>
    /\ \A i \in Units(bcg_raw) :
         bcg_raw.Small_Base[i] <=> (bcg_raw.Enrollment_2022[i] < 20)
    /\ Published =>
         \A i \in Units(BCG_DATA) :
           BCG_DATA.Small_Base[i] <=> (BCG_DATA.Enrollment_2022[i] < 20)

\* A baseline of exactly 20 left unflagged beside a baseline of 19 flagged.
C4_Witness ==
  /\ Published
  /\ \E i, j \in Units(BCG_DATA) :
       /\ BCG_DATA.Enrollment_2022[i] = 20 /\ ~BCG_DATA.Small_Base[i]
       /\ BCG_DATA.Enrollment_2022[j] = 19 /\ BCG_DATA.Small_Base[j]

\* C5: the published table has the rows of the input table, in the same
\* order, every name exactly once, and every column of full length.
C5_Completeness ==
  Published =>
    /\ NRows(BCG_DATA) = NRows(bcg_raw)
    /\ \A i \in Units(bcg_raw) :
         /\ BCG_DATA.Major[i] = bcg_raw.Major[i]
         /\ BCG_DATA.Enrollment_2022[i] = bcg_raw.Enrollment_2022[i]
         /\ BCG_DATA.Enrollment_2024[i] = bcg_raw.Enrollment_2024[i]
         /\ Cardinality({j \in Units(BCG_DATA) :
                           BCG_DATA.Major[j] = bcg_raw.Major[i]}) = 1
    /\ \A c \in {"Abs_Change", "Small_Base", "Quartile", "Quadrant"} :
         /\ HasColumn(BCG_DATA, c)
         /\ Len(BCG_DATA[c]) = NRows(bcg_raw)

\* A published table of several rows.
C5_Witness ==
  /\ Published
  /\ NRows(bcg_raw) >= 2
  /\ NRows(BCG_DATA) = NRows(bcg_raw)
  /\ BCG_DATA.Major[NRows(bcg_raw)] = bcg_raw.Major[NRows(bcg_raw)]

\* C6: every unit carries one of the four quadrants and a quartile in 1..4,
\* and two units share a quadrant exactly when they agree on both large and
\* growing.
C6_OneQuadrantOneQuartile ==
  Published =>
    LET m2 == StdMedianTwice(BCG_DATA.Enrollment_2024)
        large(i) == 2 * BCG_DATA.Enrollment_2024[i] >= m2
        growing(i) == BCG_DATA.Pct_Change[i] > 0
    IN  /\ \A i \in Units(BCG_DATA) :
             /\ BCG_DATA.Quadrant[i] \in Quadrants
             /\ BCG_DATA.Quartile[i] \in 1..4
        /\ \A i, j \in Units(BCG_DATA) :
             (BCG_DATA.Quadrant[i] = BCG_DATA.Quadrant[j])
               <=> (large(i) = large(j) /\ growing(i) = growing(j))

\* A table in which all four quadrants occur.
C6_Witness ==
  /\ Published
  /\ \A q \in Quadrants :
       \E i \in Units(BCG_DATA) : BCG_DATA.Quadrant[i] = q

\* C7: the threshold is the standard median of Enrollment_2024: the middle
\* value by rank for an odd count, the mean of the two middle values by rank
\* for an even count.
C7_StandardMedian ==
  (pc \in {"quadrant", "copy", "done"} /\ NRows(bcg_raw) > 0) =>
    /\ median_enrollment.state = "num"
    /\ median_enrollment.twice = StdMedianTwice(bcg_raw.Enrollment_2024)

\* An even-sized batch whose median is a half-integer equal to no unit's
\* value.
C7_Witness ==
  /\ pc = "quadrant"
  /\ NRows(bcg_raw) % 2 = 0
  /\ median_enrollment.state = "num"
  /\ median_enrollment.twice % 2 = 1
  /\ \A i \in Units(bcg_raw) : 2 * bcg_raw.Enrollment_2024[i] # median_enrollment.twice

C9_UndefinedGrowthRejected ==
  \A i \in Units(bcg_raw) :
    (bcg_raw.Enrollment_2022[i] = 0 /\ bcg_raw.Enrollment_2024[i] # 0)
      => (~HasColumn(bcg_raw, "Quadrant") /\ ~Published)

\* C10: a batch with a negative baseline or current value is rejected
\* (InvalidInputError): such a row is never classified.
C10_InvalidInputRejected ==
  \A i \in Units(bcg_raw) :
    (bcg_raw.Enrollment_2022[i] < 0 \/ bcg_raw.Enrollment_2024[i] < 0)
      => (~HasColumn(bcg_raw, "Quadrant") /\ ~Published)

\* The label of the (large, growing) pair.
QuadrantLabel(large, growing) ==
  IF large /\ growing THEN "Star"
  ELSE IF large THEN "Cash Cow"
  ELSE IF growing THEN "Question Mark"
  ELSE "Concern"

\* C11: a unit with baseline 0 and current value 0 has percent change 0,
\* raises no error and is classified Cash Cow or Concern, never Star or
\* Question Mark.
C11_ZeroBaselineZeroCurrent ==
  /\ (\E i \in Units(bcg_raw) :
        bcg_raw.Enrollment_2022[i] = 0 /\ bcg_raw.Enrollment_2024[i] = 0)
       => pc # "error"
  /\ Published =>
       \A i \in Units(BCG_DATA) :
         (BCG_DATA.Enrollment_2022[i] = 0 /\ BCG_DATA.Enrollment_2024[i] = 0)
           => /\ BCG_DATA.Pct_Change[i] = 0
              /\ BCG_DATA.Quadrant[i] \in {"Cash Cow", "Concern"}

\* C12: a batch of zero units produces an empty classification, computes no
\* median and raises no error.
C12_EmptyBatch ==
  (NRows(bcg_raw) = 0) =>
    /\ pc # "error"
    /\ median_enrollment.state = "unset"
    /\ Published => NRows(BCG_DATA) = 0

\* C13: classification is all-or-nothing: a batch with a unit that is in
\* error (a negative value, or baseline 0 with a current value other than 0)
\* publishes nothing, and a published batch has every unit classified.
C13_AllOrNothing ==
  LET inError(i) ==
        \/ bcg_raw.Enrollment_2022[i] < 0
        \/ bcg_raw.Enrollment_2024[i] < 0
        \/ (bcg_raw.Enrollment_2022[i] = 0 /\ bcg_raw.Enrollment_2024[i] # 0)
  IN  /\ (\E i \in Units(bcg_raw) : inError(i)) => BCG_DATA = NoFrame
      /\ Published =>
           /\ NRows(BCG_DATA) = NRows(bcg_raw)
           /\ \A i \in Units(BCG_DATA) :
                /\ BCG_DATA.Quadrant[i] \in Quadrants
                /\ BCG_DATA.Quartile[i] \in 1..4

\* C16: the quadrant of every unit is determined by the published batch
\* alone: the label of (Enrollment_2024 at least the median of that same
\* batch, Pct_Change above 0), and the stored threshold is that median.
C16_OwnBatchMedian ==
  (Published /\ NRows(BCG_DATA) > 0) =>
    /\ median_enrollment = Num2(StdMedianTwice(BCG_DATA.Enrollment_2024))
    /\ \A i \in Units(BCG_DATA) :
         BCG_DATA.Quadrant[i] =
           QuadrantLabel(2 * BCG_DATA.Enrollment_2024[i]
                           >= StdMedianTwice(BCG_DATA.Enrollment_2024),
                         BCG_DATA.Pct_Change[i] > 0)

\* A batch other than the reference table whose median differs from the
\* reference table's 38.5, with a unit that is large in its own batch and
\* would be small against 38.5.
C16_Witness ==
  /\ Published
  /\ BCG_DATA.Major # RefMajor
  /\ median_enrollment.state = "num"
  /\ median_enrollment.twice # 77
  /\ \E i \in Units(BCG_DATA) :
       /\ BCG_DATA.Quadrant[i] \in LargeQuadrants
       /\ 2 * BCG_DATA.Enrollment_2024[i] < 77


\* C15: classified data is read-only for its consumers: no tab render
\* (render_tab, build_bcg_tab, build_summary_page) and no document
\* generation (generate_bcg_docx, generate_bcg_pptx, executive summary,
\* final report) changes any column of the published BCG_DATA.
C15_ConsumersReadOnly ==
  [][Published => BCG_DATA' = BCG_DATA]_vars

\* The BCG tab is shown with a starred major and a rounded percent change
\* that differ from the stored ones, and BCG_DATA still is the table that
\* was published.
C15_Witness ==
  /\ Published
  /\ tab_content.builder = "build_bcg_tab"
  /\ BCG_DATA = bcg_raw
  /\ \E i \in Units(BCG_DATA) :
       /\ BCG_DATA.Small_Base[i]
       /\ BCG_DATA.Pct_Change[i] % 10 # 0
       /\ \E r \in tab_content.detail_df :
            /\ r.Major = BCG_DATA.Major[i] \o " *"
            /\ 10 * r.Pct_Change # BCG_DATA.Pct_Change[i]

\* C17: in the department view every department's Quadrant label agrees
\* with the 4.0% SCH divider and the sign of its 2-year change: above the
\* divider and positive is Star, above and non-positive is Cash Cow, below
\* and positive is Question Mark, below and non-positive is Concern.
C17_DeptQuadrantByDivider ==
  tab_content.builder = "build_bcg_tab" =>
    \A q \in BcgQuadrantKeys :
      \A r \in tab_content.dept_traces[q] :
        q = QuadrantLabel(r.SCH_Pct > tab_content.dept_vline,
                          r.Two_Year_Change > tab_content.dept_hline)

\* C18: every program's Market_Score is Student_Demand_Score x 0.40 +
\* Employment_Score x 0.40 + Competition_Score x 0.20 rounded to the nearest
\* integer, the formula the Gray tab shows.
C18_MarketScoreFormula ==
  tab_content.builder = "build_gray_tab" =>
    \A r \in tab_content.scorecard :
      r.Market_Score =
        RoundDiv(tab_content.formula.demand * r.Student_Demand_Score
                   + tab_content.formula.employment * r.Employment_Score
                   + tab_content.formula.competition * r.Competition_Score, 100)

\* C19: every program's GA_Recommendation satisfies the decision rules the
\* Gray tab publishes (Grow: market > 65 and economics > 65; Sustain: market
\* 50-65; Transform: market < 50 and economics > 60; Evaluate: market < 50
\* and economics < 60; Sunset Review: market < 40 and economics < 50).
C19_RecommendationRules ==
  tab_content.builder = "build_gray_tab" =>
    \A r \in tab_content.scorecard :
      DecisionRule(r.GA_Recommendation, r.Market_Score, r.Economics_Score)

\* C20: every major that the BCG key findings and the investment
\* recommendations name under a quadrant carries that quadrant in the
\* computed BCG_DATA.Quadrant column.
C20_NarrativeQuadrants ==
  document.kind = "bcg_docx" =>
    \A e \in document.findings \cup document.recommendations :
      \A i \in Units(BCG_DATA) :
        BCG_DATA.Major[i] = e.major => BCG_DATA.Quadrant[i] = e.quadrant


\* The Major column's name of a major as the recommendations abbreviate it.
MajorNamed(t) == IF t = "Business Admin" THEN "Business Administration" ELSE t

\* C21: every major that the executive summary and the final report name as
\* a Star-quadrant investment target (Business Admin, Exercise Physiology,
\* Psychology, Engineering) is classified Star in BCG_DATA: its 2024
\* enrollment is at or above the median and its percent change is positive.
C21_StarTargetsAreStars ==
  document.kind \in {"exec_summary_docx", "final_report_docx"} =>
    \A t \in document.summary.star_targets :
      \A i \in Units(BCG_DATA) :
        BCG_DATA.Major[i] = MajorNamed(t) =>
          /\ BCG_DATA.Quadrant[i] = "Star"
          /\ 2 * BCG_DATA.Enrollment_2024[i] >= StdMedianTwice(BCG_DATA.Enrollment_2024)
          /\ BCG_DATA.Pct_Change[i] > 0

\* The shipped table of 48 majors has been published.
ShippedTable == Published /\ BCG_DATA.Major = RefMajor

\* C22: for the shipped table the counts written into the narrative texts
\* (17 Concern-quadrant majors out of 48, 15 Star-quadrant majors, 12
\* small-base programs) equal the counts computed from BCG_DATA: the rows
\* whose Quadrant is Concern, whose Quadrant is Star, and whose Small_Base is
\* true.
C22_HardCodedCounts ==
  ShippedTable =>
    LET n(col, v) == Cardinality({i \in Units(BCG_DATA) : col[i] = v})
    IN  /\ document.kind \in {"exec_summary_docx", "final_report_docx"} =>
             /\ document.summary.concern_majors_text = n(BCG_DATA.Quadrant, "Concern")
             /\ document.summary.star_majors_text = n(BCG_DATA.Quadrant, "Star")
             /\ Cardinality(Units(BCG_DATA)) = 48
        /\ document.kind \in {"bcg_docx", "bcg_pptx"} =>
             document.small_base_text = n(BCG_DATA.Small_Base, TRUE)

\* The executive summary has been generated from the shipped table, with 17
\* Concern rows and 12 small-base rows in it.
C22_Witness ==
  /\ ShippedTable
  /\ document.kind = "exec_summary_docx"
  /\ document.summary.concern_majors_text = 17
  /\ Cardinality({i \in Units(BCG_DATA) : BCG_DATA.Quadrant[i] = "Concern"}) = 17
  /\ Cardinality({i \in Units(BCG_DATA) : BCG_DATA.Small_Base[i]}) = 12


\* C23: the Gray recommendation counts stated on the executive summary page
\* (7 Grow, 7 Sustain, 2 Transform, 4 Evaluate, 2 Sunset Review) equal the
\* value counts of GA_Recommendation in GRAY_ASSOCIATES_DATA, which the
\* generated documents report, and add up to its 23 programs.
C23_GrayCountsOnSummary ==
  tab_content.builder = "build_summary_page" =>
    LET programs == 1..Len(GRAY_ASSOCIATES_DATA.Program)
        n(r) == Cardinality({i \in programs : GRAY_ASSOCIATES_DATA.GA_Recommendation[i] = r})
        t == tab_content.gray_text
    IN  /\ \A r \in DOMAIN t : t[r] = n(r)
        /\ t["Grow"] + t["Sustain"] + t["Transform"] + t["Evaluate"] + t["Sunset Review"]
             = Cardinality(programs)
        /\ Cardinality(programs) = 23


\* C24: the median enrollment figure N shown in the reading guide of the
\* major-level chart is the threshold that splits large from small majors:
\* N is the value _assign_quadrant compared against, a major whose 2024
\* enrollment equals N is Star or Cash Cow, and the divider line is drawn at
\* the compared value.
C24_DisplayedMedianIsThreshold ==
  tab_content.builder = "build_bcg_tab" =>
    /\ 2 * tab_content.guide_median = median_enrollment.twice
    /\ \A i \in Units(BCG_DATA) :
         BCG_DATA.Enrollment_2024[i] = tab_content.guide_median
           => BCG_DATA.Quadrant[i] \in LargeQuadrants
    /\ tab_content.vline = median_enrollment


\* The builder the layout's tab value stands for.
BuilderOf(tab) ==
  IF tab = "summary" THEN "build_summary_page"
  ELSE IF tab = "pestle" THEN "build_pestle_tab"
  ELSE IF tab = "porters" THEN "build_porters_tab"
  ELSE IF tab = "gray" THEN "build_gray_tab"
  ELSE IF tab = "bcg" THEN "build_bcg_tab"
  ELSE IF tab = "swot" THEN "build_swot_tab"
  ELSE IF tab = "zonetowin" THEN "build_zone_to_win_tab"
  ELSE IF tab = "roadmap" THEN "build_roadmap_tab"
  ELSE "placeholder"

C26_QuartileQuadrantGrowth ==
  Published =>
    \A i \in Units(BCG_DATA) :
      /\ BCG_DATA.Quartile[i] \in {3, 4} <=> BCG_DATA.Quadrant[i] \in GrowingQuadrants
      /\ BCG_DATA.Quartile[i] \in {1, 2} <=> BCG_DATA.Quadrant[i] \in {"Cash Cow", "Concern"}

\* A published batch with a unit at percent change exactly 0, in quartile 2
\* and not growing, next to a unit in quartile 3 that is growing.
C26_Witness ==
  /\ Published
  /\ \E i, j \in Units(BCG_DATA) :
       /\ BCG_DATA.Pct_Change[i] = 0
       /\ BCG_DATA.Quartile[i] = 2
       /\ BCG_DATA.Quadrant[i] \in {"Cash Cow", "Concern"}
       /\ BCG_DATA.Quartile[j] = 3
       /\ BCG_DATA.Quadrant[j] \in GrowingQuadrants


\* C27: in every non-empty batch at least half of the units, rounded up, are
\* classified Star or Cash Cow, and a unit holding the largest current value
\* of the batch is never Question Mark or Concern; in particular the only
\* unit of a single-unit batch is Star or Cash Cow.
C27_AtLeastHalfLarge ==
  (Published /\ NRows(BCG_DATA) > 0) =>
    LET large == {i \in Units(BCG_DATA) : BCG_DATA.Quadrant[i] \in LargeQuadrants}
    IN  /\ 2 * Cardinality(large) >= NRows(BCG_DATA)
        /\ \A i \in Units(BCG_DATA) :
             (\A j \in Units(BCG_DATA) :
                BCG_DATA.Enrollment_2024[j] <= BCG_DATA.Enrollment_2024[i])
               => i \in large
        /\ NRows(BCG_DATA) = 1 => 1 \in large

\* A published batch of two units with different current values: the larger
\* one is large, the smaller one is not, exactly half.
C27_Witness ==
  /\ Published
  /\ NRows(BCG_DATA) = 2
  /\ BCG_DATA.Enrollment_2024[1] < BCG_DATA.Enrollment_2024[2]
  /\ BCG_DATA.Quadrant[1] \notin LargeQuadrants
  /\ BCG_DATA.Quadrant[2] \in LargeQuadrants


\* The batch that holds the unit i of df and no other unit.
Alone(df, i) ==
  DataFrame(<<df.Major[i]>>, <<df.Enrollment_2022[i]>>,
            <<df.Enrollment_2024[i]>>, <<df.Pct_Change[i]>>)

\* C28: under the fixed cutpoints a unit's quartile and small-base flag
\* depend only on the unit's own values: they are what the unit gets in a
\* batch of its own, whatever the other units of the batch are, and the
\* other units can change its quadrant only along the size axis (Star to or
\* from Question Mark, Cash Cow to or from Concern), never across the growth
\* axis.
C28_OtherUnitsFrame ==
  Published =>
    \A i \in Units(BCG_DATA) :
      LET solo == Alone(BCG_DATA, i)
          alone_quadrant == QuadrantColumn(solo, Median(solo.Enrollment_2024))[1]
      IN  /\ BCG_DATA.Quartile[i] = QuartileColumn(solo)[1]
          /\ BCG_DATA.Small_Base[i] = SmallBaseColumn(solo)[1]
          /\ BCG_DATA.Quadrant[i] \in GrowingQuadrants
               <=> alone_quadrant \in GrowingQuadrants

\* A published batch of two units in which the other unit moves a growing
\* unit from Star, its quadrant when alone, to Question Mark, and in which
\* the two units fall in different quartiles.
C28_Witness ==
  /\ Published
  /\ NRows(BCG_DATA) = 2
  /\ \E i \in Units(BCG_DATA) :
       LET solo == Alone(BCG_DATA, i)
       IN  /\ BCG_DATA.Quadrant[i] = "Question Mark"
           /\ QuadrantColumn(solo, Median(solo.Enrollment_2024))[1] = "Star"
  /\ BCG_DATA.Quartile[1] # BCG_DATA.Quartile[2]

====
